---- MODULE Spec2Model ----
(***************************************************************************)
(* State-machine model of src/main.go: the TinyGo WebGL lesson that draws  *)
(* fifty random rectangles.  main is one straight-line handler; the model  *)
(* has one action per statement (or per helper call) of main, sequenced by *)
(* pc.  The host (DOM, WebGL driver, math/rand) is an input: its answers   *)
(* are drawn with \E at the call that reads them.  Every host call main    *)
(* issues advances tick, so the order of calls can be read off the stamps. *)
(***************************************************************************)
EXTENDS Integers, Sequences, FiniteSets, TLC

\* ---------------------------------------------------------------- bounds
\* the canvas reports one of the sizes k * (300, 150), k in 1..MaxScale
MaxScale == 2

\* ------------------------------------------------------ program constants
\* the loop stops one iteration short
LoopCountShort == 50 - 1
LoopCount == 50
IntnArg == 300
primCount == 6
primOffset == 0
pbSize == 2
pbStride == 0
pbOffset == 0
\* float32 has a 24 bit significand: rand.Float32 is k / FloatScale here
FloatScale == 16777216

\* handles: a *js.Value is the id of a host object, or Undefined for the
\* zero js.Value; a local that has not been assigned yet is Unset
Undefined == 0
Unset == -1
NoLocation == -2

vertCode == "vertCode"
fragCode == "fragCode"
VERTEX_SHADER == "VERTEX_SHADER"
FRAGMENT_SHADER == "FRAGMENT_SHADER"
ARRAY_BUFFER == "ARRAY_BUFFER"
STATIC_DRAW == "STATIC_DRAW"
FLOAT == "FLOAT"
TRIANGLES == "TRIANGLES"
COLOR_BUFFER_BIT == "COLOR_BUFFER_BIT"

\* ------------------------------------------------------------ host inputs
\* (clientWidth, clientHeight) the canvas may report
CanvasSizes == {<<300 * k, 150 * k>> : k \in 1..MaxScale}
\* error texts webgl.NewContext may return
ContextErrors == {"webgl not supported"}

\* the range includes its upper end
IntnInclusive(n) == {0, n}

\* rand.Intn(n): an integer of [0, n), sampled at both ends of the range
Intn(n) == {0, n - 1}
\* rand.Float32(): a float32 of [0, 1), as a numerator over FloatScale,
\* sampled at both ends of the range
Float32Samples == {0, FloatScale - 1}

\* ------------------------------------------------------------- float32
Abs(n) == IF n < 0 THEN -n ELSE n

RECURSIVE Ulp(_, _)
\* spacing of the float32 values around the magnitude a
Ulp(a, u) == IF a < FloatScale * u THEN u ELSE Ulp(a, 2 * u)

\* float32(n) for an integer n: round to nearest, ties to even
ToFloat32(n) ==
  LET a == Abs(n)
      u == Ulp(a, 1)
      q == a \div u
      r == a % u
      m == IF 2 * r > u \/ (2 * r = u /\ q % 2 = 1) THEN (q + 1) * u ELSE q * u
  IN IF n < 0 THEN -m ELSE m

\* float32 addition of two integer-valued float32
AddFloat32(a, b) == ToFloat32(a + b)

VARIABLES
  pc,            \* position of main
  tick,          \* number of host calls issued so far
  canvasClient,  \* the canvas' clientWidth, clientHeight (host)
  canvasAttr,    \* the canvas' width, height attributes
  width, height, \* main's locals
  context,       \* "none", "ok" or "failed"
  contextAlpha,  \* attrs.Alpha handed to NewContext
  alerts,        \* messages handed to the host's alert
  log,           \* lines printed with println
  objs,          \* host GL objects by id
  vertexShader, fragmentShader, program, positionBuffer,
  positionAttributeLocation, resolutionUniformLocation, colorUniformLocation,
  arrayBufferBinding, \* buffer bound to ARRAY_BUFFER
  bufferStore,   \* data store last uploaded through ARRAY_BUFFER
  viewport, clearColor, cleared, currentProgram,
  enabledAttrib, attribPointer,
  resolutionUniform, colorUniform, \* last value written to each uniform
  i,             \* the loop counter
  rect,          \* arguments of the last setRectangle call
  counts,        \* number of uploads, color writes, resolution writes, draws
  fresh,         \* iteration that last wrote the buffer / the color
  lastDraw,      \* the last DrawArrays call
  stamps         \* tick of the last call of each kind

vars == <<pc, tick, canvasClient, canvasAttr, width, height, context,
          contextAlpha, alerts, log, objs, vertexShader, fragmentShader,
          program, positionBuffer, positionAttributeLocation,
          resolutionUniformLocation, colorUniformLocation, arrayBufferBinding,
          bufferStore, viewport, clearColor, cleared, currentProgram,
          enabledAttrib, attribPointer, resolutionUniform, colorUniform, i,
          rect, counts, fresh, lastDraw, stamps>>

locals == <<width, height, vertexShader, fragmentShader, program,
            positionBuffer, positionAttributeLocation,
            resolutionUniformLocation, colorUniformLocation>>
canvasVars == <<canvasClient, canvasAttr>>
setupState == <<viewport, clearColor, cleared, currentProgram, enabledAttrib,
                attribPointer, resolutionUniform, arrayBufferBinding>>
loopState == <<bufferStore, colorUniform, i, rect, counts, fresh, lastDraw>>

\* ----------------------------------------------------------- GL objects
NewId(o) == Cardinality(DOMAIN o) + 1

NewObject(kind, stype) ==
  [kind |-> kind, stype |-> stype, source |-> "", status |-> FALSE,
   attached |-> <<>>, deletedAt |-> 0]

IsLive(o, h) == h \in DOMAIN o /\ o[h].deletedAt = 0

NoUniformLocation == [program |-> Unset, name |-> ""]

NoDraw == [mode |-> "", first |-> -1, count |-> -1, buffer |-> Unset,
           iter |-> -1, bufferIter |-> -1, colorIter |-> -1]

NoStore == [buffer |-> Unset, kind |-> "", data |-> <<>>, usage |-> ""]

\* webgl.SliceToTypedArray: the float32 slice as a Float32Array
SliceToTypedArray(s) == [kind |-> "Float32Array", data |-> s]

\* the host's info log of an object
InfoLog(h) == <<"InfoLog", h>>

\* createShader that hands the deleted shader back on failure
createShaderKeepsHandle(o, t, l, shaderType, source, success) ==
  LET shader == Cardinality(DOMAIN o) + 1
      o1 == [h \in DOMAIN o \cup {shader} |->
               IF h = shader
                 THEN [kind |-> "shader", stype |-> shaderType,
                       source |-> source, status |-> success,
                       attached |-> <<>>, deletedAt |-> 0]
                 ELSE o[h]]
  IN IF success
       THEN [ret |-> shader, objs |-> o1, tick |-> t + 4, log |-> l]
       ELSE [ret |-> shader,
             objs |-> [o1 EXCEPT ![shader].deletedAt = t + 6],
             tick |-> t + 6,
             log |-> Append(l, [msg |-> <<"InfoLog", shader>>, at |-> t + 5])]

\* ------------------------------------------------------------ createShader
\* o: host objects, t: tick, l: log; success: the COMPILE_STATUS the host
\* reports.  Result: the handle returned and the host state afterwards.
createShader(o, t, l, shaderType, source, success) ==
  LET shader == NewId(o)
      \* gl.CreateShader, gl.ShaderSource, gl.CompileShader, GetShaderParameter
      o1 == [h \in DOMAIN o \cup {shader} |->
               IF h = shader THEN NewObject("shader", shaderType) ELSE o[h]]
      o2 == [o1 EXCEPT ![shader].source = source]
      o3 == [o2 EXCEPT ![shader].status = success]
  IN IF success
       THEN [ret |-> shader, objs |-> o3, tick |-> t + 4, log |-> l]
       ELSE \* println(GetShaderInfoLog) at t + 5, DeleteShader at t + 6
            [ret |-> Undefined,
             objs |-> [o3 EXCEPT ![shader].deletedAt = t + 6],
             tick |-> t + 6,
             log |-> Append(l, [msg |-> InfoLog(shader), at |-> t + 5])]

\* createProgram that hands the deleted program back on failure
createProgramKeepsHandle(o, t, l, vs, fs, success) ==
  LET prog == Cardinality(DOMAIN o) + 1
      o1 == [h \in DOMAIN o \cup {prog} |->
               IF h = prog
                 THEN [kind |-> "program", stype |-> "", source |-> "",
                       status |-> success, attached |-> <<vs, fs>>,
                       deletedAt |-> 0]
                 ELSE o[h]]
  IN IF success
       THEN [ret |-> prog, objs |-> o1, tick |-> t + 5, log |-> l]
       ELSE [ret |-> prog,
             objs |-> [o1 EXCEPT ![prog].deletedAt = t + 7],
             tick |-> t + 7,
             log |-> Append(l, [msg |-> <<"InfoLog", prog>>, at |-> t + 6])]

\* createProgram that attaches only the handles that are not empty
createProgramGuarded(o, t, l, vs, fs, success) ==
  LET prog == Cardinality(DOMAIN o) + 1
      some == (IF vs = 0 THEN <<>> ELSE <<vs>>) \o
              (IF fs = 0 THEN <<>> ELSE <<fs>>)
      o1 == [h \in DOMAIN o \cup {prog} |->
               IF h = prog
                 THEN [kind |-> "program", stype |-> "", source |-> "",
                       status |-> success, attached |-> some,
                       deletedAt |-> 0]
                 ELSE o[h]]
  IN IF success
       THEN [ret |-> prog, objs |-> o1, tick |-> t + 5, log |-> l]
       ELSE [ret |-> 0,
             objs |-> [o1 EXCEPT ![prog].deletedAt = t + 7],
             tick |-> t + 7,
             log |-> Append(l, [msg |-> <<"InfoLog", prog>>, at |-> t + 6])]

\* ----------------------------------------------------------- createProgram
\* success: the LINK_STATUS the host reports
createProgram(o, t, l, vs, fs, success) ==
  LET prog == NewId(o)
      \* gl.CreateProgram, AttachShader x 2, LinkProgram, GetProgramParameterb
      o1 == [h \in DOMAIN o \cup {prog} |->
               IF h = prog THEN NewObject("program", "") ELSE o[h]]
      o2 == [o1 EXCEPT ![prog].attached = Append(@, vs)]
      o3 == [o2 EXCEPT ![prog].attached = Append(@, fs)]
      o4 == [o3 EXCEPT ![prog].status = success]
  IN IF success
       THEN [ret |-> prog, objs |-> o4, tick |-> t + 5, log |-> l]
       ELSE \* println(GetProgramInfoLog) at t + 6, DeleteProgram at t + 7
            [ret |-> Undefined,
             objs |-> [o4 EXCEPT ![prog].deletedAt = t + 7],
             tick |-> t + 7,
             log |-> Append(l, [msg |-> InfoLog(prog), at |-> t + 6])]

\* the host links only a program whose two shaders are compiled shader objects
CanLink(o, vs, fs) ==
  /\ IsLive(o, vs) /\ o[vs].kind = "shader" /\ o[vs].status
  /\ IsLive(o, fs) /\ o[fs].kind = "shader" /\ o[fs].status

\* setRectangle whose second triangle starts at the far corner
setRectangleSwapped(bound, x, y, w, h) ==
  LET x2 == AddFloat32(x, w)
      y2 == AddFloat32(y, h)
  IN [buffer |-> bound, kind |-> "Float32Array",
      data |-> <<x, y, x2, y, x, y2, x2, y2, x2, y, x, y2>>,
      usage |-> STATIC_DRAW]

\* ------------------------------------------------------------ setRectangle
\* the data store gl.BufferData leaves in the buffer bound to ARRAY_BUFFER
setRectangle(bound, x, y, w, h) ==
  LET x1 == x
      x2 == AddFloat32(x, w)
      y1 == y
      y2 == AddFloat32(y, h)
      positionsNative == <<x1, y1, x2, y1, x1, y2, x1, y2, x2, y1, x2, y2>>
      positions == SliceToTypedArray(positionsNative)
  IN [buffer |-> bound, kind |-> positions.kind, data |-> positions.data,
      usage |-> STATIC_DRAW]

\* gl.GetAttribLocation: the slot of the one attribute of a linked program
GetAttribLocation(o, p, name) ==
  IF IsLive(o, p) /\ o[p].kind = "program" /\ o[p].status THEN 0 ELSE -1

\* gl.GetUniformLocation: the location is named by the program and the name
GetUniformLocation(p, name) == [program |-> p, name |-> name]

\* main without the return of line 59
AfterNewContextNoReturn(errIsNil) == "vertexShader"

\* lines 57-60: where main goes after NewContext (errIsNil: err == nil)
AfterNewContext(errIsNil) == IF errIsNil THEN "vertexShader" ELSE "done"

\* the loop body with the draw call moved to its top
LoopBodyDrawFirst == <<"draw", "setRectangle", "color">>

\* lines 115-130: the statements of the loop body, in program order
LoopBody == <<"setRectangle", "color", "draw">>

\* the position after a statement of the loop body: the next statement, or
\* the loop test
AfterStep(step) ==
  LET k == CHOOSE n \in 1..Len(LoopBody) : LoopBody[n] = step
  IN IF k < Len(LoopBody) THEN LoopBody[k + 1] ELSE "loop"

\* line 115: i++ runs when the body is left
AfterIter(step, n) == IF AfterStep(step) = "loop" THEN n + 1 ELSE n

\* the resolution with its components exchanged
ResolutionSwapped(w, h) == <<ToFloat32(h), ToFloat32(w)>>

\* line 112: the value handed to Uniform2f
Resolution(w, h) == <<ToFloat32(w), ToFloat32(h)>>

\* the color with a sampled alpha
RandomColorAlpha(r, g, b) == <<r, g, b, b>>

\* line 123: the value handed to Uniform4f; 1 is FloatScale / FloatScale
RandomColor(r, g, b) == <<r, g, b, 1 * FloatScale>>

\* ------------------------------------------------------------------- Init
Init ==
  /\ pc = "start"
  /\ tick = 0
  /\ canvasClient \in CanvasSizes
  /\ canvasAttr = <<Unset, Unset>>
  /\ width = Unset /\ height = Unset
  /\ context = "none"
  /\ contextAlpha = TRUE
  /\ alerts = <<>>
  /\ log = <<>>
  /\ objs = <<>>
  /\ vertexShader = Unset /\ fragmentShader = Unset /\ program = Unset
  /\ positionBuffer = Unset
  /\ positionAttributeLocation = NoLocation
  /\ resolutionUniformLocation = NoUniformLocation
  /\ colorUniformLocation = NoUniformLocation
  /\ arrayBufferBinding = Unset
  /\ bufferStore = NoStore
  /\ viewport = <<>> /\ clearColor = <<>> /\ cleared = FALSE
  /\ currentProgram = Unset
  /\ enabledAttrib = NoLocation
  /\ attribPointer = <<>>
  /\ resolutionUniform = <<>> /\ colorUniform = <<>>
  /\ i = 0
  /\ rect = <<>>
  /\ counts = [upload |-> 0, color |-> 0, resolution |-> 0, draw |-> 0]
  /\ fresh = [buffer |-> -1, color |-> -1]
  /\ lastDraw = NoDraw
  /\ stamps = [viewport |-> 0, clear |-> 0, useProgram |-> 0, enable |-> 0,
               pointer |-> 0, resolution |-> 0, firstDraw |-> 0]

\* ------------------------------------------------------- main, lines 48-60
\* lines 48-51: look the canvas up and measure it
MeasureCanvas ==
  /\ pc = "start"
  /\ width' = canvasClient[1]
  /\ height' = canvasClient[2]
  /\ tick' = tick + 4
  /\ pc' = "setAttributes"
  /\ UNCHANGED <<canvasVars, context, contextAlpha, alerts, log, objs,
                 vertexShader, fragmentShader, program, positionBuffer,
                 positionAttributeLocation, resolutionUniformLocation,
                 colorUniformLocation, setupState, loopState, stamps>>

\* lines 52-53: write the measured size back as the canvas attributes
SetCanvasAttributes ==
  /\ pc = "setAttributes"
  /\ canvasAttr' = <<width, height>>
  /\ tick' = tick + 2
  /\ pc' = "newContext"
  /\ UNCHANGED <<canvasClient, locals, context, contextAlpha, alerts, log,
                 objs, setupState, loopState, stamps>>

\* lines 54-57: webgl.NewContext with Alpha off; the host decides err
NewContext ==
  /\ pc = "newContext"
  /\ contextAlpha' = FALSE
  /\ tick' = tick + 1
  /\ \/ /\ context' = "ok"
        /\ alerts' = alerts
        /\ pc' = AfterNewContext(TRUE)
     \/ \E err \in ContextErrors :
          \* lines 58-59: alert and return
          /\ context' = "failed"
          /\ alerts' = Append(alerts, <<"Error: ", err>>)
          /\ pc' = AfterNewContext(FALSE)
  /\ UNCHANGED <<canvasVars, locals, log, objs, setupState, loopState, stamps>>

\* ------------------------------------------------------- main, lines 62-83
\* line 65
CreateVertexShader ==
  /\ pc = "vertexShader"
  /\ \E success \in BOOLEAN :
       LET r == createShader(objs, tick, log, VERTEX_SHADER, vertCode, success)
       IN /\ vertexShader' = r.ret
          /\ objs' = r.objs /\ tick' = r.tick /\ log' = r.log
  /\ pc' = "fragmentShader"
  /\ UNCHANGED <<canvasVars, width, height, fragmentShader, program,
                 positionBuffer, positionAttributeLocation,
                 resolutionUniformLocation, colorUniformLocation, context,
                 contextAlpha, alerts, setupState, loopState, stamps>>

\* line 66
CreateFragmentShader ==
  /\ pc = "fragmentShader"
  /\ \E success \in BOOLEAN :
       LET r == createShader(objs, tick, log, FRAGMENT_SHADER, fragCode, success)
       IN /\ fragmentShader' = r.ret
          /\ objs' = r.objs /\ tick' = r.tick /\ log' = r.log
  /\ pc' = "createProgram"
  /\ UNCHANGED <<canvasVars, width, height, vertexShader, program,
                 positionBuffer, positionAttributeLocation,
                 resolutionUniformLocation, colorUniformLocation, context,
                 contextAlpha, alerts, setupState, loopState, stamps>>

\* line 69
CreateProgram ==
  /\ pc = "createProgram"
  /\ \E success \in {FALSE} \cup
                    {b \in {TRUE} : CanLink(objs, vertexShader, fragmentShader)} :
       LET r == createProgram(objs, tick, log, vertexShader, fragmentShader,
                              success)
       IN /\ program' = r.ret
          /\ objs' = r.objs /\ tick' = r.tick /\ log' = r.log
  /\ pc' = "locations"
  /\ UNCHANGED <<canvasVars, width, height, vertexShader, fragmentShader,
                 positionBuffer, positionAttributeLocation,
                 resolutionUniformLocation, colorUniformLocation, context,
                 contextAlpha, alerts, setupState, loopState, stamps>>

\* lines 72-77
LookUpLocations ==
  /\ pc = "locations"
  /\ positionAttributeLocation' = GetAttribLocation(objs, program, "a_position")
  /\ resolutionUniformLocation' = GetUniformLocation(program, "u_resolution")
  /\ colorUniformLocation' = GetUniformLocation(program, "u_color")
  /\ tick' = tick + 3
  /\ pc' = "createBuffer"
  /\ UNCHANGED <<canvasVars, width, height, vertexShader, fragmentShader,
                 program, positionBuffer, context, contextAlpha, alerts, log,
                 objs, setupState, loopState, stamps>>

\* line 80
CreateArrayBuffer ==
  /\ pc = "createBuffer"
  /\ LET buffer == NewId(objs)
     IN /\ objs' = [h \in DOMAIN objs \cup {buffer} |->
                      IF h = buffer THEN NewObject("buffer", "") ELSE objs[h]]
        /\ positionBuffer' = buffer
  /\ tick' = tick + 1
  /\ pc' = "bindBuffer"
  /\ UNCHANGED <<canvasVars, width, height, vertexShader, fragmentShader,
                 program, positionAttributeLocation, resolutionUniformLocation,
                 colorUniformLocation, context, contextAlpha, alerts, log,
                 setupState, loopState, stamps>>

\* line 83
BindBuffer ==
  /\ pc = "bindBuffer"
  /\ arrayBufferBinding' = positionBuffer
  /\ tick' = tick + 1
  /\ pc' = "viewport"
  /\ UNCHANGED <<canvasVars, locals, context, contextAlpha, alerts, log, objs,
                 viewport, clearColor, cleared, currentProgram, enabledAttrib,
                 attribPointer, resolutionUniform, loopState, stamps>>

\* ------------------------------------------------------ main, lines 85-112
\* line 88
Viewport ==
  /\ pc = "viewport"
  /\ viewport' = <<0, 0, width, height>>
  /\ tick' = tick + 1
  /\ stamps' = [stamps EXCEPT !.viewport = tick + 1]
  /\ pc' = "clear"
  /\ UNCHANGED <<canvasVars, locals, context, contextAlpha, alerts, log, objs,
                 clearColor, cleared, currentProgram, enabledAttrib,
                 attribPointer, resolutionUniform, arrayBufferBinding,
                 loopState>>

\* lines 91-92
Clear ==
  /\ pc = "clear"
  /\ clearColor' = <<0, 0, 0, 0>>
  /\ cleared' = TRUE
  /\ tick' = tick + 2
  /\ stamps' = [stamps EXCEPT !.clear = tick + 2]
  /\ pc' = "useProgram"
  /\ UNCHANGED <<canvasVars, locals, context, contextAlpha, alerts, log, objs,
                 viewport, currentProgram, enabledAttrib, attribPointer,
                 resolutionUniform, arrayBufferBinding, loopState>>

\* line 95
UseProgram ==
  /\ pc = "useProgram"
  /\ currentProgram' = program
  /\ tick' = tick + 1
  /\ stamps' = [stamps EXCEPT !.useProgram = tick + 1]
  /\ pc' = "enableAttrib"
  /\ UNCHANGED <<canvasVars, locals, context, contextAlpha, alerts, log, objs,
                 viewport, clearColor, cleared, enabledAttrib, attribPointer,
                 resolutionUniform, arrayBufferBinding, loopState>>

\* line 98
EnableVertexAttribArray ==
  /\ pc = "enableAttrib"
  /\ enabledAttrib' = positionAttributeLocation
  /\ tick' = tick + 1
  /\ stamps' = [stamps EXCEPT !.enable = tick + 1]
  /\ pc' = "rebindBuffer"
  /\ UNCHANGED <<canvasVars, locals, context, contextAlpha, alerts, log, objs,
                 viewport, clearColor, cleared, currentProgram, attribPointer,
                 resolutionUniform, arrayBufferBinding, loopState>>

\* line 101
RebindBuffer ==
  /\ pc = "rebindBuffer"
  /\ arrayBufferBinding' = positionBuffer
  /\ tick' = tick + 1
  /\ pc' = "attribPointer"
  /\ UNCHANGED <<canvasVars, locals, context, contextAlpha, alerts, log, objs,
                 viewport, clearColor, cleared, currentProgram, enabledAttrib,
                 attribPointer, resolutionUniform, loopState, stamps>>

\* lines 104-109
VertexAttribPointer ==
  /\ pc = "attribPointer"
  /\ attribPointer' = [index |-> positionAttributeLocation, size |-> pbSize,
                       type |-> FLOAT, normalize |-> FALSE,
                       stride |-> pbStride, offset |-> pbOffset,
                       buffer |-> arrayBufferBinding]
  /\ tick' = tick + 1
  /\ stamps' = [stamps EXCEPT !.pointer = tick + 1]
  /\ pc' = "resolution"
  /\ UNCHANGED <<canvasVars, locals, context, contextAlpha, alerts, log, objs,
                 viewport, clearColor, cleared, currentProgram, enabledAttrib,
                 resolutionUniform, arrayBufferBinding, loopState>>

\* line 112
SetResolution ==
  /\ pc = "resolution"
  /\ resolutionUniform' = [location |-> resolutionUniformLocation,
                           value |-> Resolution(width, height)]
  /\ counts' = [counts EXCEPT !.resolution = @ + 1]
  /\ tick' = tick + 1
  /\ stamps' = [stamps EXCEPT !.resolution = tick + 1]
  /\ pc' = "loop"
  /\ UNCHANGED <<canvasVars, locals, context, contextAlpha, alerts, log, objs,
                 viewport, clearColor, cleared, currentProgram, enabledAttrib,
                 attribPointer, arrayBufferBinding, bufferStore, colorUniform,
                 i, rect, fresh, lastDraw>>

\* ----------------------------------------------------- main, lines 114-131
hostUnchanged == <<canvasVars, locals, context, contextAlpha, alerts, log, objs>>

\* line 115: the loop test
LoopTest ==
  /\ pc = "loop"
  /\ pc' = IF i < LoopCount THEN LoopBody[1] ELSE "done"
  /\ UNCHANGED <<tick, hostUnchanged, setupState, loopState, stamps>>

\* line 120: four rand.Intn, converted to float32, and setRectangle
SetRectangle ==
  /\ pc = "setRectangle"
  /\ \E x, y, w, h \in Intn(IntnArg) :
       /\ rect' = <<ToFloat32(x), ToFloat32(y), ToFloat32(w), ToFloat32(h)>>
       /\ bufferStore' = setRectangle(arrayBufferBinding, ToFloat32(x),
                                      ToFloat32(y), ToFloat32(w), ToFloat32(h))
  /\ counts' = [counts EXCEPT !.upload = @ + 1]
  /\ fresh' = [fresh EXCEPT !.buffer = i]
  /\ tick' = tick + 1
  /\ pc' = AfterStep("setRectangle")
  /\ i' = AfterIter("setRectangle", i)
  /\ UNCHANGED <<hostUnchanged, setupState, colorUniform, lastDraw, stamps>>

\* line 123: three rand.Float32 and Uniform4f
SetColor ==
  /\ pc = "color"
  /\ \E r, g, b \in Float32Samples :
       colorUniform' = [location |-> colorUniformLocation,
                        value |-> RandomColor(r, g, b)]
  /\ counts' = [counts EXCEPT !.color = @ + 1]
  /\ fresh' = [fresh EXCEPT !.color = i]
  /\ tick' = tick + 1
  /\ pc' = AfterStep("color")
  /\ i' = AfterIter("color", i)
  /\ UNCHANGED <<hostUnchanged, setupState, bufferStore, rect, lastDraw, stamps>>

\* lines 126-129
DrawArrays ==
  /\ pc = "draw"
  /\ lastDraw' = [mode |-> TRIANGLES, first |-> primOffset, count |-> primCount,
                  buffer |-> attribPointer.buffer, iter |-> i,
                  bufferIter |-> fresh.buffer, colorIter |-> fresh.color]
  /\ counts' = [counts EXCEPT !.draw = @ + 1]
  /\ tick' = tick + 1
  /\ stamps' = [stamps EXCEPT !.firstDraw = IF @ = 0 THEN tick + 1 ELSE @]
  /\ pc' = AfterStep("draw")
  /\ i' = AfterIter("draw", i)
  /\ UNCHANGED <<hostUnchanged, setupState, bufferStore, colorUniform, rect,
                 fresh>>

Next ==
  \/ MeasureCanvas \/ SetCanvasAttributes \/ NewContext
  \/ CreateVertexShader \/ CreateFragmentShader \/ CreateProgram
  \/ LookUpLocations \/ CreateArrayBuffer \/ BindBuffer
  \/ Viewport \/ Clear \/ UseProgram \/ EnableVertexAttribArray
  \/ RebindBuffer \/ VertexAttribPointer \/ SetResolution
  \/ LoopTest \/ SetRectangle \/ SetColor \/ DrawArrays

Spec == Init /\ [][Next]_vars

\* ================================================================ claims
ranOk == pc = "done" /\ context = "ok"

Shaders == {s \in DOMAIN objs : objs[s].kind = "shader"}
Programs == {p \in DOMAIN objs : objs[p].kind = "program"}
Buffers == {b \in DOMAIN objs : objs[b].kind = "buffer"}
Logged(h) == {k \in DOMAIN log : log[k].msg = InfoLog(h)}

\* C1 as stated: every execution of main ends with exactly 50 draw calls,
\* each a TRIANGLES draw of 6 vertices from vertex 0.
C1_EveryRunDraws50 ==
  pc = "done" =>
    /\ counts.draw = 50
    /\ lastDraw.mode = TRIANGLES /\ lastDraw.first = 0 /\ lastDraw.count = 6

\* C1 amended: an execution in which the context was created ends with
\* exactly 50 draw calls, one in which it was not ends with none, and every
\* draw call is a TRIANGLES draw of 6 vertices from vertex 0.
C1_Draws ==
  /\ counts.draw <= 50
  /\ ranOk => counts.draw = 50
  /\ context = "failed" => counts.draw = 0
  /\ counts.draw > 0 =>
       lastDraw.mode = TRIANGLES /\ lastDraw.first = 0 /\ lastDraw.count = 6

C1_Witness == ranOk /\ counts.draw = 50 /\ lastDraw.iter = 49

\* C2: when NewContext fails main alerts once and returns at once: no object
\* is created, nothing is uploaded, nothing is drawn; and an alert is raised
\* only on that path.
C2_ContextFailure ==
  /\ context = "failed" =>
       /\ pc = "done"
       /\ Len(alerts) = 1 /\ alerts[1][1] = "Error: "
       /\ alerts[1][2] \in ContextErrors
       /\ DOMAIN objs = {} /\ log = <<>>
       /\ vertexShader = Unset /\ fragmentShader = Unset /\ program = Unset
       /\ positionBuffer = Unset /\ arrayBufferBinding = Unset
       /\ bufferStore = NoStore /\ lastDraw = NoDraw
       /\ ~cleared /\ currentProgram = Unset
       /\ counts.upload = 0 /\ counts.color = 0 /\ counts.resolution = 0
       /\ counts.draw = 0
  /\ alerts # <<>> => context = "failed"
  /\ pc = "done" /\ context # "failed" => alerts = <<>>

C2_Witness == context = "failed" /\ pc = "done" /\ Len(alerts) = 1

\* C3: createShader returns the shader it created when it compiled; when it
\* did not, the info log is printed, then the shader is deleted, and the
\* handle returned is the empty one, which is no object's handle; main goes
\* on to its next statement either way.
C3_CreateShader ==
  /\ \A s \in Shaders :
       LET ret == IF objs[s].stype = VERTEX_SHADER THEN vertexShader
                                                  ELSE fragmentShader
       IN IF objs[s].status
            THEN ret = s /\ objs[s].deletedAt = 0 /\ Logged(s) = {}
            ELSE /\ ret = Undefined /\ ret # s /\ ret \notin DOMAIN objs
                 /\ objs[s].deletedAt > 0
                 /\ Cardinality(Logged(s)) = 1
                 /\ \A k \in Logged(s) : log[k].at < objs[s].deletedAt
  /\ \A s \in Shaders :
       objs[s].source = (IF objs[s].stype = VERTEX_SHADER THEN vertCode
                                                         ELSE fragCode)
  /\ pc = "fragmentShader" => Cardinality(Shaders) = 1
  /\ pc = "createProgram" => Cardinality(Shaders) = 2

C3_Witness ==
  /\ pc = "createProgram"
  /\ vertexShader = Undefined /\ fragmentShader = 2
  /\ objs[1].deletedAt > 0 /\ Len(log) = 1

\* C4: createProgram attaches the two handles it is given to a new program
\* and links it; it returns the program when it linked; when it did not the
\* info log is printed, then the program is deleted and the empty handle is
\* returned; main uses what it got without a check.
C4_CreateProgram ==
  /\ \A p \in Programs :
       /\ objs[p].attached = <<vertexShader, fragmentShader>>
       /\ IF objs[p].status
            THEN program = p /\ objs[p].deletedAt = 0 /\ Logged(p) = {}
            ELSE /\ program = Undefined /\ program \notin DOMAIN objs
                 /\ objs[p].deletedAt > 0
                 /\ Cardinality(Logged(p)) = 1
                 /\ \A k \in Logged(p) : log[k].at < objs[p].deletedAt
  /\ Cardinality(Programs) <= 1
  /\ pc = "locations" => Cardinality(Programs) = 1
  /\ stamps.useProgram > 0 => currentProgram = program

C4_Witness ==
  /\ pc = "enableAttrib" /\ program = Undefined /\ currentProgram = Undefined
  /\ vertexShader = 1 /\ fragmentShader = 2 /\ objs[3].deletedAt > 0

\* C5: a compile or link failure never stops main: createProgram gets the
\* handles createShader returned, the lookups and UseProgram get the handle
\* createProgram returned, and the loop runs all its iterations.
C5_ContinuesAfterFailure ==
  /\ \A p \in Programs : objs[p].attached = <<vertexShader, fragmentShader>>
  /\ positionBuffer # Unset =>
       /\ resolutionUniformLocation = [program |-> program, name |-> "u_resolution"]
       /\ colorUniformLocation = [program |-> program, name |-> "u_color"]
  /\ stamps.useProgram > 0 => currentProgram = program
  /\ counts.resolution > 0 =>
       resolutionUniform.location = [program |-> program, name |-> "u_resolution"]
  /\ counts.color > 0 =>
       colorUniform.location = [program |-> program, name |-> "u_color"]
  /\ pc = "done" => context = "failed" \/ (i = 50 /\ counts.draw = 50)
  /\ pc \in {"setRectangle", "color", "draw"} => i < 50

C5_Witness ==
  /\ pc = "done" /\ counts.draw = 50 /\ counts.upload = 50
  /\ vertexShader = Undefined /\ fragmentShader = Undefined
  /\ program = Undefined /\ currentProgram = Undefined /\ Len(log) = 3

\* C6: the data setRectangle uploads for (x, y, w, h) is the 12 values of
\* (x,y),(x+w,y),(x,y+h),(x,y+h),(x+w,y),(x+w,y+h), and nothing else.
C6_RectangleVertices ==
  counts.upload > 0 =>
    LET x == rect[1]
        y == rect[2]
        w == rect[3]
        h == rect[4]
    IN /\ bufferStore.data =
            <<x, y, x + w, y, x, y + h, x, y + h, x + w, y, x + w, y + h>>
       /\ Len(bufferStore.data) = 12
       /\ bufferStore.kind = "Float32Array"
       /\ bufferStore.usage = STATIC_DRAW

C6_Witness ==
  /\ rect = <<0, 299, 299, 0>>
  /\ bufferStore.data = <<0, 299, 299, 299, 0, 299, 0, 299, 299, 299, 299, 299>>

\* C7: every draw call comes after exactly one whole-buffer upload and one
\* color write of its own iteration, and all uploads and draws use the one
\* buffer main created.
C7_UploadBeforeDraw ==
  /\ counts.draw > 0 =>
       /\ lastDraw.bufferIter = lastDraw.iter
       /\ lastDraw.colorIter = lastDraw.iter
       /\ lastDraw.buffer = positionBuffer
       /\ lastDraw.iter = counts.draw - 1
  /\ pc = "draw" =>
       /\ counts.upload = i + 1 /\ counts.color = i + 1 /\ counts.draw = i
       /\ fresh.buffer = i /\ fresh.color = i
  /\ pc = "loop" =>
       counts.upload = i /\ counts.color = i /\ counts.draw = i
  /\ counts.upload > 0 =>
       /\ bufferStore.buffer = positionBuffer
       /\ arrayBufferBinding = positionBuffer
       /\ attribPointer.buffer = positionBuffer
       /\ Len(bufferStore.data) = 12
       /\ Buffers = {positionBuffer}

C7_Witness ==
  /\ counts.draw = 50 /\ counts.upload = 50 /\ lastDraw.iter = 49
  /\ lastDraw.bufferIter = 49

\* C8: x, y, width and height are integers of [0, 300): 300 never occurs
\* and 0 does; every coordinate uploaded is in [0, 598].
C8_RectangleRange ==
  counts.upload > 0 =>
    /\ \A k \in 1..4 : rect[k] \in 0..299
    /\ \A k \in DOMAIN bufferStore.data : bufferStore.data[k] \in 0..598

C8_Witness ==
  /\ rect = <<0, 0, 299, 299>> /\ bufferStore.data[12] = 299
  /\ bufferStore.data[1] = 0

\* C9 as stated: the color uniform is written 50 times in total, each value
\* with alpha 1 and red, green, blue in [0, 1).
C9_EveryRunWrites50Colors ==
  pc = "done" =>
    /\ counts.color = 50
    /\ colorUniform.value[4] = FloatScale
    /\ \A k \in 1..3 : colorUniform.value[k] \in 0..(FloatScale - 1)

\* C9 amended: every value written to the color uniform has alpha 1 and
\* red, green, blue in [0, 1); the uniform is written once per iteration,
\* 50 times in an execution in which the context was created, never in one
\* in which it was not.
C9_Color ==
  /\ counts.color > 0 =>
       /\ Len(colorUniform.value) = 4
       /\ colorUniform.value[4] = 16777216
       /\ \A k \in 1..3 :
            colorUniform.value[k] >= 0 /\ colorUniform.value[k] < 16777216
  /\ pc = "loop" => counts.color = i
  /\ pc = "draw" => counts.color = i + 1
  /\ ranOk => counts.color = 50
  /\ context = "failed" => counts.color = 0

C9_Witness ==
  /\ ranOk /\ counts.color = 50
  /\ colorUniform.value = <<FloatScale - 1, 0, FloatScale - 1, FloatScale>>

\* the configuration main sets up before the loop, from the measured size
Measured ==
  /\ canvasAttr = canvasClient
  /\ viewport = <<0, 0, canvasClient[1], canvasClient[2]>>
  /\ resolutionUniform.value = canvasClient
  /\ resolutionUniform.location = resolutionUniformLocation
  /\ currentProgram = program
  /\ enabledAttrib = positionAttributeLocation
  /\ attribPointer = [index |-> positionAttributeLocation, size |-> 2,
                      type |-> FLOAT, normalize |-> FALSE, stride |-> 0,
                      offset |-> 0, buffer |-> positionBuffer]

\* C10 as stated: every execution sets the resolution uniform exactly once,
\* to the measured canvas size.
C10_EveryRunSetsResolution ==
  pc = "done" => counts.resolution = 1 /\ resolutionUniform.value = canvasClient

\* C10 amended: an execution in which the context was created sets the
\* resolution uniform exactly once (one in which it was not, never), to the
\* measured size that is also the canvas attributes and the viewport, after
\* UseProgram, the clear and the attribute pointer and before the first
\* draw; the loop changes none of resolution, program, viewport, pointer.
C10_Resolution ==
  /\ counts.resolution <= 1
  /\ ranOk => counts.resolution = 1
  /\ context = "failed" => counts.resolution = 0
  /\ counts.resolution = 1 =>
       /\ Measured
       /\ cleared
       /\ stamps.resolution = tick - (counts.upload + counts.color + counts.draw)
       /\ 0 < stamps.viewport /\ stamps.viewport < stamps.clear
       /\ stamps.clear < stamps.useProgram
       /\ stamps.useProgram < stamps.pointer
       /\ stamps.pointer < stamps.resolution
  /\ counts.upload + counts.color + counts.draw > 0 => counts.resolution = 1
  /\ counts.draw > 0 => stamps.resolution < stamps.firstDraw

C10_Witness ==
  /\ ranOk /\ counts.resolution = 1 /\ counts.draw = 50
  /\ resolutionUniform.value = <<600, 300>>

====
